---- MODULE Spec2Model ----
(***************************************************************************)
(* A model of the netcup libdns provider: the record model (dnsRecord and  *)
(* its equality), the reconciliation helpers of util.go (findRecord,       *)
(* getRecordsToAppend, getRecordsToSet, getRecordsToDelete, difference),   *)
(* and the four session-scoped Provider methods.                           *)
(***************************************************************************)
EXTENDS Integers, Sequences, FiniteSets, TLC

VARIABLES
    fn,        \* the helper last applied to the inputs ("none" before)
    desired,   \* the helper's first argument (a record or a record list)
    existing,  \* the helper's second argument (a record or a record list)
    out,       \* what the helper returned
    zone,      \* the record set the provider holds for the zone
    nextID,    \* the number the provider gives the next record it creates
    calls,     \* the number of top-level calls made so far
    mutex,     \* the caller holding Provider.mutex, or NoCaller
    pc,        \* each caller's position in its top-level call
    local      \* each caller's local variables in its top-level call

pureVars == <<fn, desired, existing, out>>

providerVars == <<zone, nextID, calls, mutex, pc, local>>

vars == <<fn, desired, existing, out, zone, nextID, calls, mutex, pc, local>>

----------------------------------------------------------------------------
(* Bounds and value sets of the inputs.                                    *)

\* the most records the desired and the existing list hold between them
MaxRecords == 3
\* the longest existing list findRecord searches
MaxExisting == 2

Hosts == {"www", "mail"}
Types == {"A", "MX"}
Dests == {"d1", "d2"}
Prios == {0, 10}

\* ids the provider assigned to the existing records, by position
ProviderID(i) == ToString(i)

\* an id no existing record has
StaleID == ProviderID(0)

\* the ids a caller can put on a desired record when n records exist: none,
\* the id of an existing record, or an id no existing record has
CallerIDs(n) == {"", StaleID} \cup {ProviderID(i) : i \in 1..n}

----------------------------------------------------------------------------
(* Record model.                                                           *)

dnsRecord(id, h, t, p, d, del) ==
    [ID |-> id, HostName |-> h, RecType |-> t, Priority |-> p,
     Destination |-> d, DeleteRecord |-> del]

\* a nil *dnsRecord
Nil == [nil |-> TRUE]

equalsWithID(rec, otherRec) ==
    /\ rec.ID = otherRec.ID
    /\ rec.HostName = otherRec.HostName
    /\ rec.RecType = otherRec.RecType
    /\ rec.Destination = otherRec.Destination
    /\ rec.Priority = otherRec.Priority

equals(rec, otherRec) ==
    /\ rec.HostName = otherRec.HostName
    /\ rec.RecType = otherRec.RecType
    /\ rec.Destination = otherRec.Destination
    /\ rec.Priority = otherRec.Priority

----------------------------------------------------------------------------
(* Identity resolution.                                                    *)

RECURSIVE findRecordByID(_, _)
findRecordByID(id, records) ==
    IF records = <<>> THEN Nil
    ELSE IF Head(records).ID = id THEN Head(records)
    ELSE findRecordByID(id, Tail(records))

RECURSIVE findRecordByNameAndType(_, _, _)
findRecordByNameAndType(hostName, recType, records) ==
    IF records = <<>> THEN Nil
    ELSE IF Head(records).HostName = hostName /\ Head(records).RecType = recType
         THEN Head(records)
    ELSE findRecordByNameAndType(hostName, recType, Tail(records))

findRecordByNameAndTypeIgnoringPriority(hostName, recType, priority, records) ==
    findRecordByNameAndType(hostName, recType, records)

RECURSIVE findRecordByNameAndTypeAndPriority(_, _, _, _)
findRecordByNameAndTypeAndPriority(hostName, recType, priority, records) ==
    IF records = <<>> THEN Nil
    ELSE IF /\ Head(records).HostName = hostName
            /\ Head(records).RecType = recType
            /\ Head(records).Priority = priority
         THEN Head(records)
    ELSE findRecordByNameAndTypeAndPriority(hostName, recType, priority, Tail(records))

findRecordWithFallback(record, records) ==
    IF record.ID # "" /\ findRecordByID(record.ID, records) # Nil
        THEN findRecordByID(record.ID, records)
    ELSE IF record.RecType # "MX"
        THEN findRecordByNameAndType(record.HostName, record.RecType, records)
    ELSE findRecordByNameAndTypeAndPriority(record.HostName, record.RecType,
                                            record.Priority, records)

findRecordWithoutID(record, records) ==
    IF record.RecType # "MX"
        THEN findRecordByNameAndType(record.HostName, record.RecType, records)
    ELSE findRecordByNameAndTypeAndPriority(record.HostName, record.RecType,
                                            record.Priority, records)

findRecord(record, records) ==
    IF record.ID # ""
        THEN findRecordByID(record.ID, records)
    ELSE IF record.RecType # "MX"
        THEN findRecordByNameAndType(record.HostName, record.RecType, records)
    ELSE findRecordByNameAndTypeAndPriority(record.HostName, record.RecType,
                                            record.Priority, records)

----------------------------------------------------------------------------
(* Reconciliation: the batch to submit for append, set and delete.         *)

RECURSIVE getRecordsToAppendSettingID(_, _)
getRecordsToAppendSettingID(appendRecords, existingRecords) ==
    IF appendRecords = <<>> THEN <<>>
    ELSE LET record == Head(appendRecords)
             foundRecord == findRecord(record, existingRecords)
             rest == getRecordsToAppendSettingID(Tail(appendRecords), existingRecords)
         IN  IF foundRecord = Nil THEN <<record>> \o rest
             ELSE IF ~equals(foundRecord, record)
                 THEN <<[record EXCEPT !.ID = foundRecord.ID]>> \o rest
             ELSE rest

RECURSIVE getRecordsToAppend(_, _)
getRecordsToAppend(appendRecords, existingRecords) ==
    IF appendRecords = <<>> THEN <<>>
    ELSE LET record == Head(appendRecords)
             foundRecord == findRecord(record, existingRecords)
             rest == getRecordsToAppend(Tail(appendRecords), existingRecords)
         IN  IF foundRecord = Nil \/ ~equals(foundRecord, record)
                 THEN <<record>> \o rest
                 ELSE rest

RECURSIVE recordsToUpdateKeepingID(_, _)
recordsToUpdateKeepingID(setRecords, existingRecords) ==
    IF setRecords = <<>> THEN <<>>
    ELSE LET record == Head(setRecords)
             foundRecord == findRecord(record, existingRecords)
             rest == recordsToUpdateKeepingID(Tail(setRecords), existingRecords)
         IN  IF foundRecord # Nil /\ ~equals(foundRecord, record)
                 THEN <<record>> \o rest
                 ELSE rest

\* the recordsToUpdate accumulator of getRecordsToSet
RECURSIVE recordsToUpdate(_, _)
recordsToUpdate(setRecords, existingRecords) ==
    IF setRecords = <<>> THEN <<>>
    ELSE LET record == Head(setRecords)
             foundRecord == findRecord(record, existingRecords)
             rest == recordsToUpdate(Tail(setRecords), existingRecords)
         IN  IF foundRecord # Nil /\ ~equals(foundRecord, record)
                 THEN <<[record EXCEPT !.ID = foundRecord.ID]>> \o rest
                 ELSE rest

\* the recordsToAppend accumulator of getRecordsToSet
RECURSIVE recordsToAppend(_, _)
recordsToAppend(setRecords, existingRecords) ==
    IF setRecords = <<>> THEN <<>>
    ELSE LET record == Head(setRecords)
             foundRecord == findRecord(record, existingRecords)
             rest == recordsToAppend(Tail(setRecords), existingRecords)
         IN  IF foundRecord = Nil
                 THEN <<record>> \o rest
                 ELSE rest

getRecordsToSetAppendsFirst(setRecords, existingRecords) ==
    recordsToAppend(setRecords, existingRecords)
        \o recordsToUpdate(setRecords, existingRecords)

getRecordsToSet(setRecords, existingRecords) ==
    recordsToUpdate(setRecords, existingRecords)
        \o recordsToAppend(setRecords, existingRecords)

RECURSIVE getRecordsToDeleteKeepingDestination(_, _)
getRecordsToDeleteKeepingDestination(deleteRecords, existingRecords) ==
    IF deleteRecords = <<>> THEN <<>>
    ELSE LET record == Head(deleteRecords)
             foundRecord == findRecord(record, existingRecords)
             rest == getRecordsToDeleteKeepingDestination(Tail(deleteRecords),
                                                          existingRecords)
         IN  IF foundRecord # Nil
                 THEN <<[record EXCEPT !.ID = foundRecord.ID,
                                       !.DeleteRecord = TRUE]>> \o rest
                 ELSE rest

RECURSIVE getRecordsToDeleteIncludingAbsent(_, _)
getRecordsToDeleteIncludingAbsent(deleteRecords, existingRecords) ==
    IF deleteRecords = <<>> THEN <<>>
    ELSE LET record == Head(deleteRecords)
             foundRecord == findRecord(record, existingRecords)
             rest == getRecordsToDeleteIncludingAbsent(Tail(deleteRecords),
                                                       existingRecords)
         IN  IF foundRecord # Nil
                 THEN <<[record EXCEPT !.ID = foundRecord.ID,
                                       !.Destination = foundRecord.Destination,
                                       !.DeleteRecord = TRUE]>> \o rest
                 ELSE <<[record EXCEPT !.DeleteRecord = TRUE]>> \o rest

RECURSIVE getRecordsToDelete(_, _)
getRecordsToDelete(deleteRecords, existingRecords) ==
    IF deleteRecords = <<>> THEN <<>>
    ELSE LET record == Head(deleteRecords)
             foundRecord == findRecord(record, existingRecords)
             rest == getRecordsToDelete(Tail(deleteRecords), existingRecords)
         IN  IF foundRecord # Nil
                 THEN <<[record EXCEPT !.ID = foundRecord.ID,
                                       !.Destination = foundRecord.Destination,
                                       !.DeleteRecord = TRUE]>> \o rest
                 ELSE rest

----------------------------------------------------------------------------
(* Conversions to and from the caller's records, and the result differ.    *)

\* time.Second, in nanoseconds
Second == 1000000000

libdnsRecord(id, t, n, v, ttl, p) ==
    [ID |-> id, Type |-> t, Name |-> n, Value |-> v, TTL |-> ttl, Priority |-> p]

toLibdnsRecordsInNanoseconds(netcupRecords, ttl) ==
    [i \in 1..Len(netcupRecords) |->
        libdnsRecord(netcupRecords[i].ID, netcupRecords[i].RecType,
                     netcupRecords[i].HostName, netcupRecords[i].Destination,
                     ttl, netcupRecords[i].Priority)]

toLibdnsRecords(netcupRecords, ttl) ==
    [i \in 1..Len(netcupRecords) |->
        libdnsRecord(netcupRecords[i].ID, netcupRecords[i].RecType,
                     netcupRecords[i].HostName, netcupRecords[i].Destination,
                     ttl * Second, netcupRecords[i].Priority)]

toNetcupRecords(libnsRecords) ==
    [i \in 1..Len(libnsRecords) |->
        dnsRecord(libnsRecords[i].ID, libnsRecords[i].Name, libnsRecords[i].Type,
                  libnsRecords[i].Priority, libnsRecords[i].Value, FALSE)]

RECURSIVE differenceByID(_, _)
differenceByID(a, b) ==
    IF a = <<>> THEN <<>>
    ELSE LET elm == Head(a)
             rest == differenceByID(Tail(a), b)
         IN  IF \A j \in 1..Len(b) : b[j].ID # elm.ID
                 THEN <<elm>> \o rest
                 ELSE rest

\* the map is keyed by the whole dnsRecord, so a record of a is left out
\* only when b holds a record equal to it in every field
RECURSIVE difference(_, _)
difference(a, b) ==
    IF a = <<>> THEN <<>>
    ELSE LET elm == Head(a)
             rest == difference(Tail(a), b)
         IN  IF \A j \in 1..Len(b) : b[j] # elm
                 THEN <<elm>> \o rest
                 ELSE rest

----------------------------------------------------------------------------
(* Inputs of the helpers.                                                  *)

\* hostName, recordType, priority, destination of a record
Fields == [HostName : Hosts, RecType : Types, Priority : Prios, Destination : Dests]

WithID(f, id) == dnsRecord(id, f.HostName, f.RecType, f.Priority, f.Destination, FALSE)

\* Host names and destinations are only ever compared for equality, so every
\* pair of lists is a renaming of one whose first record (of the first list,
\* or of the second when the first is empty) is www -> d1: the inputs are
\* enumerated up to that renaming.
Leading(s) == s # <<>> => s[1].HostName = "www" /\ s[1].Destination = "d1"

\* the record lists infoDnsRecords can return with n records: every record
\* has its own id
ExistingLists(n) ==
    {[i \in 1..n |-> WithID(fs[i], ProviderID(i))] : fs \in [1..n -> Fields]}

\* the record lists toNetcupRecords can build from n caller records, when ne
\* records exist
DesiredRecords(ne) == {WithID(f, id) : f \in Fields, id \in CallerIDs(ne)}
DesiredLists(n, ne) == [1..n -> DesiredRecords(ne)]

\* the callers of one Provider
NumCallers == 2
Callers == 1..NumCallers
NoCaller == 0

\* the local variables of a top-level call before it starts
NoReturn == [records |-> <<>>, nil |-> TRUE, err |-> ""]
InitLocal ==
    [op |-> "none", records |-> <<>>, apiSessionID |-> "", ttl |-> 0,
     existingRecordSet |-> <<>>, batch |-> <<>>, ret |-> NoReturn,
     sent |-> <<>>, recv |-> <<>>, errmsg |-> "", cancelled |-> FALSE,
     zone0 |-> <<>>, repeat |-> FALSE, last |-> <<>>]

\* no top-level call has been made
ProviderIdle ==
    /\ zone = <<>>
    /\ nextID = 1
    /\ calls = 0
    /\ mutex = NoCaller
    /\ pc = [c \in Callers |-> "idle"]
    /\ local = [c \in Callers |-> InitLocal]

----------------------------------------------------------------------------
(* dnsRecord.equals applied to every pair of records.                      *)

AnyRecords ==
    {dnsRecord(id, f.HostName, f.RecType, f.Priority, f.Destination, del) :
        f \in Fields, id \in CallerIDs(1), del \in BOOLEAN}

InitEquals ==
    /\ ProviderIdle
    /\ fn = "none"
    /\ desired \in AnyRecords
    /\ existing \in AnyRecords
    /\ out = <<>>

ApplyEquals ==
    /\ fn = "none"
    /\ fn' = "equals"
    /\ out' = equals(desired, existing)
    /\ UNCHANGED <<desired, existing>>
    /\ UNCHANGED providerVars

NextEquals == ApplyEquals

SpecEquals == InitEquals /\ [][NextEquals]_vars

----------------------------------------------------------------------------
(* findRecord applied to every candidate record and existing list.         *)

InitFind ==
    /\ ProviderIdle
    /\ fn = "none"
    /\ \E n \in 0..MaxExisting :
        /\ existing \in ExistingLists(n)
        /\ desired \in DesiredRecords(n)
    /\ out = <<>>

ApplyFind ==
    /\ fn = "none"
    /\ fn' = "findRecord"
    /\ out' = findRecord(desired, existing)
    /\ UNCHANGED <<desired, existing>>
    /\ UNCHANGED providerVars

NextFind == ApplyFind

SpecFind == InitFind /\ [][NextFind]_vars

----------------------------------------------------------------------------
(* The reconciliation helpers applied to every desired and existing list.  *)

InitReconcile ==
    /\ ProviderIdle
    /\ fn = "none"
    /\ \E nd \in 0..MaxRecords : \E ne \in 0..(MaxRecords - nd) :
        /\ desired \in {d \in DesiredLists(nd, ne) : Leading(d)}
        /\ existing \in {e \in ExistingLists(ne) : nd = 0 => Leading(e)}
    /\ out = <<>>

ApplyAppend ==
    /\ fn = "none"
    /\ fn' = "getRecordsToAppend"
    /\ out' = getRecordsToAppend(desired, existing)
    /\ UNCHANGED <<desired, existing>>
    /\ UNCHANGED providerVars

ApplySet ==
    /\ fn = "none"
    /\ fn' = "getRecordsToSet"
    /\ out' = getRecordsToSet(desired, existing)
    /\ UNCHANGED <<desired, existing>>
    /\ UNCHANGED providerVars

ApplyDelete ==
    /\ fn = "none"
    /\ fn' = "getRecordsToDelete"
    /\ out' = getRecordsToDelete(desired, existing)
    /\ UNCHANGED <<desired, existing>>
    /\ UNCHANGED providerVars

NextReconcile == ApplyAppend \/ ApplySet \/ ApplyDelete

SpecReconcile == InitReconcile /\ [][NextReconcile]_vars

----------------------------------------------------------------------------
(* difference applied to every result list and baseline list.              *)

\* records as the provider returns them; ids can recur between the two lists
ReturnedRecords == {WithID(f, ProviderID(i)) : f \in Fields, i \in 1..2}

InitDifference ==
    /\ ProviderIdle
    /\ fn = "none"
    /\ \E na \in 0..MaxRecords : \E nb \in 0..(MaxRecords - na) :
        /\ desired \in {a \in [1..na -> ReturnedRecords] : Leading(a)}
        /\ existing \in {b \in [1..nb -> ReturnedRecords] : na = 0 => Leading(b)}
    /\ out = <<>>

ApplyDifference ==
    /\ fn = "none"
    /\ fn' = "difference"
    /\ out' = difference(desired, existing)
    /\ UNCHANGED <<desired, existing>>
    /\ UNCHANGED providerVars

NextDifference == ApplyDifference

SpecDifference == InitDifference /\ [][NextDifference]_vars

----------------------------------------------------------------------------
(* The Provider: GetRecords, AppendRecords, SetRecords and DeleteRecords,  *)
(* each a login, the zone reads, at most one update and a logout under the *)
(* Provider's mutex, against the record set the netcup API holds.          *)

\* the most top-level calls made in one behaviour
MaxCalls == 2
\* the most records the zone holds before the first call
MaxZone == 0

\* the TTL of the zone, in seconds
ZoneTTL == 1

Ops == {"GetRecords", "AppendRecords", "SetRecords", "DeleteRecords"}

\* the records of the zone and of the callers in the Provider's runs
PoolFields ==
    {f \in Fields :
        /\ f.HostName = "www"
        /\ \/ f.RecType = "A" /\ f.Priority = 0
           \/ f.RecType = "MX" /\ f.Priority = 10 /\ f.Destination = "d1"}

InitialZones ==
    UNION {{[i \in 1..n |-> WithID(fs[i], ProviderID(i))] : fs \in [1..n -> PoolFields]} :
            n \in 0..MaxZone}

\* the place of i among the indices S: the number of them up to i
Rank(S, i) == Cardinality({k \in S : k <= i})

\* the records a caller passes: without id, or with the id of the first
\* record the provider created; without TTL, or with a TTL of half a second
CallerPool ==
    <<libdnsRecord("", "A", "www", "d1", 0, 0),
      libdnsRecord("", "A", "www", "d2", Second \div 2, 0),
      libdnsRecord("", "MX", "www", "d1", Second \div 2, 10),
      libdnsRecord(ProviderID(1), "A", "www", "d2", 0, 0)>>

\* the record lists a caller passes: the sub-lists of the pool
CallerLists ==
    {[k \in 1..Cardinality(S) |-> CallerPool[CHOOSE i \in S : Rank(S, i) = k]] :
        S \in SUBSET (1..Len(CallerPool))}

\* the apisessionid the n-th login is given
SessionID(n) == "s" \o ToString(n)

\* a request as doRequest posts it
Request(action, apiSessionID, dnsRecordSet) ==
    [action |-> action, apisessionid |-> apiSessionID, dnsrecordset |-> dnsRecordSet]

\* what a top-level call returns: the records, whether the slice is nil, and
\* the error ("" is nil), named after the action that failed
Return(records, isNil, err) == [records |-> records, nil |-> isNil, err |-> err]

\* a method returning what toLibdnsRecords built: appending to a nil slice,
\* it gives nil when there is nothing to convert
Returned(libdnsRecords) == Return(libdnsRecords, libdnsRecords = <<>>, "")

\* the status of a response of the netcup API
Statuses == {"success", "error", "pending"}

\* http.DefaultClient.Do returned an error: there is no response
NoResponse == "none"

\* http.DefaultClient.Do returned the error of a ctx that is done: the
\* request was not transmitted
Canceled == "canceled"

\* the positions of a call between p.mutex.Lock() and its return
InCall == {"login", "infoDnsZone", "infoDnsRecords", "updateDnsRecords", "logout"}

\* what can come back for a request of call c
Answers(c) == IF local[c].cancelled THEN {Canceled} ELSE Statuses \cup {NoResponse}

\* a response as doRequest decodes it
Response(status, responseData) ==
    [status |-> status, shortmessage |-> "short", longmessage |-> "long",
     responsedata |-> responseData]

\* the error doRequest makes of a response whose status it rejects
statusError(httpResp) ==
    "[netcup] " \o httpResp.shortmessage \o ": " \o httpResp.longmessage

doRequestErrorOnly(httpResp) ==
    IF httpResp.status \in {NoResponse, Canceled}
        THEN [err |-> httpResp.status, response |-> Nil]
    ELSE IF httpResp.status = "error"
        THEN [err |-> statusError(httpResp), response |-> Nil]
    ELSE [err |-> "", response |-> httpResp]

\* doRequest from http.DefaultClient.Do on: the error of Do, or an error
\* for a response whose status is not "success", or the response and no
\* error ("")
doRequest(httpResp) ==
    IF httpResp.status \in {NoResponse, Canceled}
        THEN [err |-> httpResp.status, response |-> Nil]
    ELSE IF httpResp.status # "success"
        THEN [err |-> statusError(httpResp), response |-> Nil]
    ELSE [err |-> "", response |-> httpResp]

firstDeferredUnlock(loggedIn) == "unlock"

\* the first deferred call a returning method runs: p.logout once login has
\* succeeded and logout is deferred, p.mutex.Unlock before that
firstDeferred(loggedIn) == IF loggedIn THEN "logout" ELSE "unlock"

recordSetOfFirst(records) == <<Head(records)>>

\* the dnsRecordSet a method builds around its batch
recordSetOf(records) == records

\* The netcup API applying the dnsrecordset of updateDnsRecords to its record
\* set: an entry marked for deletion removes the record of its id, an entry
\* with an id replaces the record of that id, an entry without id becomes a
\* new record with the next id.
RECURSIVE applyRecordSet(_, _, _)
applyRecordSet(records, id, recordSet) ==
    IF recordSet = <<>> THEN [records |-> records, nextID |-> id]
    ELSE LET e == Head(recordSet)
             stored == [e EXCEPT !.DeleteRecord = FALSE]
         IN  IF e.DeleteRecord
                 THEN applyRecordSet(SelectSeq(records, LAMBDA r : r.ID # e.ID),
                                     id, Tail(recordSet))
             ELSE IF e.ID = ""
                 THEN applyRecordSet(Append(records, [stored EXCEPT !.ID = ProviderID(id)]),
                                     id + 1, Tail(recordSet))
             ELSE applyRecordSet([i \in 1..Len(records) |->
                                     IF records[i].ID = e.ID THEN stored ELSE records[i]],
                                 id, Tail(recordSet))

\* the netcup API answers status "error" to a record set naming an id it
\* does not hold
accepts(records, recordSet) ==
    \A i \in 1..Len(recordSet) :
        recordSet[i].ID = "" \/ recordSet[i].ID \in {records[j].ID : j \in 1..Len(records)}

\* the batch each method computes from the caller's records and the record
\* set it read
recordsToSubmit(op, netcupRecords, existingRecords) ==
    CASE op = "AppendRecords" -> getRecordsToAppend(netcupRecords, existingRecords)
      [] op = "SetRecords"    -> getRecordsToSet(netcupRecords, existingRecords)
      [] op = "DeleteRecords" -> getRecordsToDelete(netcupRecords, existingRecords)

recordsToReturnAll(op, existingRecords, updatedRecords) == updatedRecords

recordsToReturnAdded(op, existingRecords, updatedRecords) ==
    difference(updatedRecords, existingRecords)

recordsToReturnByID(op, existingRecords, updatedRecords) ==
    IF op = "DeleteRecords" THEN differenceByID(existingRecords, updatedRecords)
    ELSE differenceByID(updatedRecords, existingRecords)

\* the records each method reports from the record sets before and after
\* its update
recordsToReturn(op, existingRecords, updatedRecords) ==
    CASE op = "AppendRecords" -> difference(updatedRecords, existingRecords)
      [] op = "SetRecords"    -> difference(updatedRecords, existingRecords)
      [] op = "DeleteRecords" -> difference(existingRecords, updatedRecords)

Init ==
    /\ fn = "none" /\ desired = <<>> /\ existing = <<>> /\ out = <<>>
    /\ zone \in InitialZones
    /\ nextID = Len(zone) + 1
    /\ calls = 0
    /\ mutex = NoCaller
    /\ pc = [c \in Callers |-> "idle"]
    /\ local = [c \in Callers |-> InitLocal]

\* a caller calls one of the four methods and blocks in p.mutex.Lock();
\* callers are interchangeable, so the call is the first idle caller's
Call(c) ==
    /\ pc[c] = "idle"
    /\ \A d \in 1..(c - 1) : pc[d] # "idle"
    /\ calls < MaxCalls
    /\ calls' = calls + 1
    /\ pc' = [pc EXCEPT ![c] = "lock"]
    /\ UNCHANGED <<zone, nextID, mutex, local>>
    /\ UNCHANGED pureVars

LockWithoutWaiting(c) ==
    /\ pc[c] = "lock"
    /\ mutex' = c
    /\ IF local[c].repeat
           THEN local' = [local EXCEPT ![c].zone0 = zone]
       ELSE \E op \in Ops : \E records \in CallerLists :
               /\ op = "GetRecords" => records = <<>>
               /\ local' = [local EXCEPT ![c] =
                       [InitLocal EXCEPT !.op = op, !.records = records, !.zone0 = zone]]
    /\ pc' = [pc EXCEPT ![c] = "login"]
    /\ UNCHANGED <<zone, nextID, calls>>
    /\ UNCHANGED pureVars

\* p.mutex.Lock() returns; the method and its arguments are the caller's,
\* or those of the call it repeats
Lock(c) ==
    /\ pc[c] = "lock"
    /\ mutex = NoCaller
    /\ mutex' = c
    /\ IF local[c].repeat
           THEN local' = [local EXCEPT ![c].zone0 = zone]
       ELSE \E op \in Ops : \E records \in CallerLists :
               /\ op = "GetRecords" => records = <<>>
               /\ local' = [local EXCEPT ![c] =
                       [InitLocal EXCEPT !.op = op, !.records = records, !.zone0 = zone]]
    /\ pc' = [pc EXCEPT ![c] = "login"]
    /\ UNCHANGED <<zone, nextID, calls>>
    /\ UNCHANGED pureVars

\* the local state of call c once doRequest has been called with a request
\* and status has come back for it
posted(c, action, recordSet, status) ==
    [local[c] EXCEPT !.sent = Append(@, Request(action, local[c].apiSessionID, recordSet)),
                     !.recv = Append(@, status)]

\* the caller cancels the ctx of its running call
Cancel(c) ==
    /\ pc[c] \in InCall
    /\ ~local[c].cancelled
    /\ local' = [local EXCEPT ![c].cancelled = TRUE]
    /\ UNCHANGED <<zone, nextID, calls, mutex, pc>>
    /\ UNCHANGED pureVars

LoginSucceedsSkippingZone(c, status, apiSessionID) ==
    /\ local' = [local EXCEPT ![c] =
                    [posted(c, "login", <<>>, status) EXCEPT !.apiSessionID = apiSessionID]]
    /\ pc' = [pc EXCEPT ![c] = "infoDnsRecords"]

\* p.login succeeds: the session id is kept and logout is deferred
LoginSucceeds(c, status, apiSessionID) ==
    /\ local' = [local EXCEPT ![c] =
                    [posted(c, "login", <<>>, status) EXCEPT !.apiSessionID = apiSessionID]]
    /\ pc' = [pc EXCEPT ![c] = "infoDnsZone"]

LoginFailsThenLogsOut(c, status, err) ==
    /\ local' = [local EXCEPT ![c] =
                    [posted(c, "login", <<>>, status)
                        EXCEPT !.ret = Return(<<>>, TRUE, "login"), !.errmsg = err]]
    /\ pc' = [pc EXCEPT ![c] = "logout"]

LoginFailsHoldingMutex(c, status, err) ==
    /\ local' = [local EXCEPT ![c] =
                    [posted(c, "login", <<>>, status)
                        EXCEPT !.ret = Return(<<>>, TRUE, "login"), !.errmsg = err]]
    /\ pc' = [pc EXCEPT ![c] = "idle"]

\* p.login fails: the method returns nil and the error
LoginFails(c, status, err) ==
    /\ local' = [local EXCEPT ![c] =
                    [posted(c, "login", <<>>, status)
                        EXCEPT !.ret = Return(<<>>, TRUE, "login"), !.errmsg = err]]
    /\ pc' = [pc EXCEPT ![c] = firstDeferred(FALSE)]

Login(c) ==
    /\ pc[c] = "login"
    /\ \E status \in Answers(c) :
        LET res == doRequest(Response(status,
                                 IF status = "success" THEN SessionID(calls) ELSE ""))
        IN  IF res.err # "" THEN LoginFails(c, status, res.err)
            ELSE LoginSucceeds(c, status, res.response.responsedata)
    /\ UNCHANGED <<zone, nextID, calls, mutex>>
    /\ UNCHANGED pureVars

InfoDNSZoneRetrying(c) ==
    /\ pc[c] = "infoDnsZone"
    /\ \E status \in Answers(c) :
        LET res == doRequest(Response(status, IF status = "success" THEN ZoneTTL ELSE 0))
            l == posted(c, "infoDnsZone", <<>>, status)
        IN  IF res.err # ""
                THEN /\ local' = [local EXCEPT ![c] = l]
                     /\ pc' = pc
            ELSE /\ local' = [local EXCEPT ![c] =
                                [l EXCEPT !.ttl = res.response.responsedata]]
                 /\ pc' = [pc EXCEPT ![c] = "infoDnsRecords"]
    /\ UNCHANGED <<zone, nextID, calls, mutex>>
    /\ UNCHANGED pureVars

InfoDNSZone(c) ==
    /\ pc[c] = "infoDnsZone"
    /\ \E status \in Answers(c) :
        LET res == doRequest(Response(status, IF status = "success" THEN ZoneTTL ELSE 0))
            l == posted(c, "infoDnsZone", <<>>, status)
        IN  IF res.err # ""
                THEN /\ local' = [local EXCEPT ![c] =
                                    [l EXCEPT !.ret = Return(<<>>, TRUE, "infoDnsZone"),
                                              !.errmsg = res.err]]
                     /\ pc' = [pc EXCEPT ![c] = firstDeferred(TRUE)]
            ELSE /\ local' = [local EXCEPT ![c] =
                                [l EXCEPT !.ttl = res.response.responsedata]]
                 /\ pc' = [pc EXCEPT ![c] = "infoDnsRecords"]
    /\ UNCHANGED <<zone, nextID, calls, mutex>>
    /\ UNCHANGED pureVars

InfoDNSRecordsSucceedsSubmittingEmpty(c, status, existingRecords) ==
    LET l == [posted(c, "infoDnsRecords", <<>>, status)
                EXCEPT !.existingRecordSet = existingRecords]
        batch == recordsToSubmit(l.op, toNetcupRecords(l.records), existingRecords)
    IN  IF l.op = "GetRecords"
            THEN /\ local' = [local EXCEPT ![c] =
                        [l EXCEPT !.ret = Returned(toLibdnsRecords(existingRecords, l.ttl))]]
                 /\ pc' = [pc EXCEPT ![c] = firstDeferred(TRUE)]
        ELSE /\ local' = [local EXCEPT ![c] = [l EXCEPT !.batch = batch]]
             /\ pc' = [pc EXCEPT ![c] = "updateDnsRecords"]

\* p.infoDNSRecords succeeded, and the method up to its update: GetRecords
\* returns the records read; the other methods compute their batch and
\* return an empty list when it is empty
InfoDNSRecordsSucceeds(c, status, existingRecords) ==
    LET l == [posted(c, "infoDnsRecords", <<>>, status)
                EXCEPT !.existingRecordSet = existingRecords]
        batch == recordsToSubmit(l.op, toNetcupRecords(l.records), existingRecords)
    IN  IF l.op = "GetRecords"
            THEN /\ local' = [local EXCEPT ![c] =
                        [l EXCEPT !.ret = Returned(toLibdnsRecords(existingRecords, l.ttl))]]
                 /\ pc' = [pc EXCEPT ![c] = firstDeferred(TRUE)]
        ELSE IF Len(batch) = 0
            THEN /\ local' = [local EXCEPT ![c] =
                        [l EXCEPT !.batch = batch, !.ret = Return(<<>>, FALSE, "")]]
                 /\ pc' = [pc EXCEPT ![c] = firstDeferred(TRUE)]
        ELSE /\ local' = [local EXCEPT ![c] = [l EXCEPT !.batch = batch]]
             /\ pc' = [pc EXCEPT ![c] = "updateDnsRecords"]

InfoDNSRecords(c) ==
    /\ pc[c] = "infoDnsRecords"
    /\ \E status \in Answers(c) :
        LET res == doRequest(Response(status, IF status = "success" THEN zone ELSE <<>>))
        IN  IF res.err # ""
                THEN /\ local' = [local EXCEPT ![c] =
                            [posted(c, "infoDnsRecords", <<>>, status)
                                EXCEPT !.ret = Return(<<>>, TRUE, "infoDnsRecords"),
                                       !.errmsg = res.err]]
                     /\ pc' = [pc EXCEPT ![c] = firstDeferred(TRUE)]
            ELSE InfoDNSRecordsSucceeds(c, status, res.response.responsedata)
    /\ UNCHANGED <<zone, nextID, calls, mutex>>
    /\ UNCHANGED pureVars

\* p.updateDNSRecords and the rest of the method: the API applies the record
\* set when it answers "success", and answers with its whole record set,
\* which the method diffs against the record set it read
UpdateDNSRecords(c) ==
    /\ pc[c] = "updateDnsRecords"
    /\ \E status \in Answers(c) :
        LET recordSet == recordSetOf(local[c].batch)
            l == posted(c, "updateDnsRecords", recordSet, status)
            applied == IF status = "success" THEN applyRecordSet(zone, nextID, recordSet)
                       ELSE [records |-> zone, nextID |-> nextID]
            res == doRequest(Response(status,
                                 IF status = "success" THEN applied.records ELSE <<>>))
        IN  /\ status = "success" => accepts(zone, recordSet)
            /\ zone' = applied.records
            /\ nextID' = applied.nextID
            /\ IF res.err # ""
                   THEN local' = [local EXCEPT ![c] =
                            [l EXCEPT !.ret = Return(<<>>, TRUE, "updateDnsRecords"),
                                      !.errmsg = res.err]]
               ELSE local' = [local EXCEPT ![c] =
                        [l EXCEPT !.ret = Returned(toLibdnsRecords(
                            recordsToReturn(l.op, l.existingRecordSet,
                                            res.response.responsedata), l.ttl))]]
    /\ pc' = [pc EXCEPT ![c] = firstDeferred(TRUE)]
    /\ UNCHANGED <<calls, mutex>>
    /\ UNCHANGED pureVars

LogoutReturningError(c) ==
    /\ pc[c] = "logout"
    /\ \E status \in Answers(c) :
        LET l == posted(c, "logout", <<>>, status)
        IN  IF doRequest(Response(status, "")).err # ""
                THEN local' = [local EXCEPT ![c] =
                                [l EXCEPT !.ret = Return(<<>>, TRUE, "logout")]]
            ELSE local' = [local EXCEPT ![c] = l]
    /\ pc' = [pc EXCEPT ![c] = "unlock"]
    /\ UNCHANGED <<zone, nextID, calls, mutex>>
    /\ UNCHANGED pureVars

LogoutAfterUnlock(c) ==
    /\ pc[c] = "logout"
    /\ \/ /\ mutex = c
          /\ mutex' = NoCaller
          /\ UNCHANGED <<pc, local>>
       \/ /\ mutex # c
          /\ \E status \in Answers(c) :
                local' = [local EXCEPT ![c] = posted(c, "logout", <<>>, status)]
          /\ pc' = [pc EXCEPT ![c] = "unlock"]
          /\ UNCHANGED mutex
    /\ UNCHANGED <<zone, nextID, calls>>
    /\ UNCHANGED pureVars

\* the deferred p.logout: it returns nothing and drops what doRequest
\* returns, so the method's results stay as they are
Logout(c) ==
    /\ pc[c] = "logout"
    /\ \E status \in Answers(c) :
        local' = [local EXCEPT ![c] = posted(c, "logout", <<>>, status)]
    /\ pc' = [pc EXCEPT ![c] = "unlock"]
    /\ UNCHANGED <<zone, nextID, calls, mutex>>
    /\ UNCHANGED pureVars

\* the deferred p.mutex.Unlock(), and the method returns to its caller
Unlock(c) ==
    /\ pc[c] = "unlock"
    /\ mutex' = NoCaller
    /\ pc' = [pc EXCEPT ![c] = "idle"]
    /\ local' = [local EXCEPT ![c] = InitLocal]
    /\ UNCHANGED <<zone, nextID, calls>>
    /\ UNCHANGED pureVars

\* a call of AppendRecords or SetRecords returns without error, as in
\* Unlock, and its caller calls the method again with the same records
Repeat(c) ==
    /\ pc[c] = "unlock"
    /\ local[c].op \in {"AppendRecords", "SetRecords"}
    /\ local[c].ret.err = ""
    /\ calls < MaxCalls
    /\ calls' = calls + 1
    /\ mutex' = NoCaller
    /\ pc' = [pc EXCEPT ![c] = "lock"]
    /\ local' = [local EXCEPT ![c] =
                    [InitLocal EXCEPT !.op = local[c].op, !.records = local[c].records,
                                      !.repeat = TRUE, !.last = zone]]
    /\ UNCHANGED <<zone, nextID>>
    /\ UNCHANGED pureVars

Next ==
    \E c \in Callers :
        \/ Call(c)
        \/ Repeat(c)
        \/ Lock(c)
        \/ Cancel(c)
        \/ Login(c)
        \/ InfoDNSZone(c)
        \/ InfoDNSRecords(c)
        \/ UpdateDNSRecords(c)
        \/ Logout(c)
        \/ Unlock(c)

Spec == Init /\ [][Next]_vars

\* the steps of call c from the return of p.mutex.Lock() to the return of
\* the method
Proceed(c) ==
    \/ Login(c) \/ InfoDNSZone(c) \/ InfoDNSRecords(c) \/ UpdateDNSRecords(c)
    \/ Logout(c) \/ Unlock(c)

\* progress does not depend on the records: in the fair runs a caller
\* passes no record or the first record of the pool
FairLists == {<<>>, <<Head(CallerPool)>>}

FairInputs == \A c \in Callers : local[c].records \in FairLists

FairLock(c) == Lock(c) /\ FairInputs'

\* every request a call has posted is answered or fails (doRequest returns),
\* a method that has reached its return runs its deferred calls, and
\* sync.Mutex hands the lock to a goroutine that keeps waiting for it
\* (starvation mode), however often other callers take it in between
Fairness ==
    \A c \in Callers : WF_vars(Proceed(c)) /\ SF_vars(FairLock(c))

NextFair ==
    \E c \in Callers :
        \/ Call(c)
        \/ Repeat(c)
        \/ FairLock(c)
        \/ Cancel(c)
        \/ Login(c)
        \/ InfoDNSZone(c)
        \/ InfoDNSRecords(c)
        \/ UpdateDNSRecords(c)
        \/ Logout(c)
        \/ Unlock(c)

FairSpec == Init /\ [][NextFair]_vars /\ Fairness

----------------------------------------------------------------------------
(* Properties of the record model and of the reconciliation helpers.       *)

\* the four fields equality is about
Key(r) == <<r.HostName, r.RecType, r.Destination, r.Priority>>

IDsOf(records) == {records[j].ID : j \in 1..Len(records)}

\* C1: equals(a, b) is true exactly when hostName, recordType, destination
\* and priority agree, whatever the ids and the deletion flags are.
C1_EqualsIffKeyFieldsMatch ==
    fn = "equals" => (out <=> (Key(desired) = Key(existing)))

C1_Witness ==
    /\ fn = "equals"
    /\ out = TRUE
    /\ desired.ID # existing.ID
    /\ desired.DeleteRecord # existing.DeleteRecord

\* C2: getRecordsToAppend returns an empty batch whenever every desired
\* record has an equal counterpart somewhere in existing, also when the
\* equal one is not the first of several with its hostName and recordType
\* (stated for desired records without ids, as append requests have none).
C2_AppendIdempotent ==
    (/\ fn = "getRecordsToAppend"
     /\ \A i \in 1..Len(desired) :
            /\ desired[i].ID = ""
            /\ \E j \in 1..Len(existing) : Key(existing[j]) = Key(desired[i]))
        => out = <<>>

\* the desired records getRecordsToSet updates, and those it appends
UpdateIdx ==
    {i \in 1..Len(desired) :
        /\ findRecord(desired[i], existing) # Nil
        /\ Key(findRecord(desired[i], existing)) # Key(desired[i])}
AppendIdx == {i \in 1..Len(desired) : findRecord(desired[i], existing) = Nil}

\* C3: the batch of getRecordsToSet is the updates, in input order, followed
\* by the appends, in input order.
C3_SetUpdatesBeforeAppends ==
    fn = "getRecordsToSet" =>
        /\ Len(out) = Cardinality(UpdateIdx) + Cardinality(AppendIdx)
        /\ \A i \in UpdateIdx : Key(out[Rank(UpdateIdx, i)]) = Key(desired[i])
        /\ \A i \in AppendIdx :
              out[Cardinality(UpdateIdx) + Rank(AppendIdx, i)] = desired[i]

C3_Witness ==
    /\ fn = "getRecordsToSet"
    /\ \E i \in AppendIdx : \E j \in UpdateIdx : i < j

\* C5: a desired MX record without id resolves only to an existing record of
\* the same hostName, type MX and priority; of two existing MX records of
\* one hostName and different priorities it resolves to the one whose
\* priority it has, never to the other.
C5_MXMatchedByPriority ==
    (fn = "findRecord" /\ desired.ID = "" /\ desired.RecType = "MX") =>
        /\ out # Nil =>
              /\ \E j \in 1..Len(existing) : out = existing[j]
              /\ out.HostName = desired.HostName
              /\ out.RecType = "MX"
              /\ out.Priority = desired.Priority
        /\ \A i, j \in 1..Len(existing) :
              (/\ existing[i].RecType = "MX" /\ existing[j].RecType = "MX"
               /\ existing[i].HostName = desired.HostName
               /\ existing[j].HostName = desired.HostName
               /\ existing[i].Priority = desired.Priority
               /\ existing[j].Priority # desired.Priority)
                  => (out # Nil /\ out.Priority = desired.Priority /\ out # existing[j])

C5_Witness ==
    /\ fn = "findRecord" /\ desired.ID = "" /\ desired.RecType = "MX"
    /\ Len(existing) = 2
    /\ existing[1].RecType = "MX" /\ existing[1].HostName = desired.HostName
    /\ existing[1].Priority # desired.Priority
    /\ existing[2].RecType = "MX" /\ existing[2].HostName = desired.HostName
    /\ existing[2].Priority = desired.Priority
    /\ out = existing[2]

\* C6 as claimed: difference(result, baseline) is the records of result whose
\* id is the id of no record of baseline, in the order of result.
NewIDIdx == {i \in 1..Len(desired) : desired[i].ID \notin IDsOf(existing)}
C6_DifferenceByID ==
    fn = "difference" =>
        /\ Len(out) = Cardinality(NewIDIdx)
        /\ \A i \in NewIDIdx : out[Rank(NewIDIdx, i)] = desired[i]

\* C6 as the code has it: difference(result, baseline) is the records of
\* result that equal no record of baseline in every field, in the order of
\* result; a record whose id is in baseline but whose other fields differ
\* is returned.
NewRecordIdx ==
    {i \in 1..Len(desired) : \A j \in 1..Len(existing) : existing[j] # desired[i]}
C6_DifferenceByWholeRecord ==
    fn = "difference" =>
        /\ Len(out) = Cardinality(NewRecordIdx)
        /\ \A i \in NewRecordIdx : out[Rank(NewRecordIdx, i)] = desired[i]

C6_Witness ==
    /\ fn = "difference"
    /\ \E i \in 1..Len(desired) : \E k \in 1..Len(out) :
          /\ desired[i].ID \in IDsOf(existing)
          /\ out[k] = desired[i]
    /\ Len(out) < Len(desired)

\* C7: every desired record whose identity match is found and is not equal
\* is in the batch of getRecordsToSet with the id of its match and with its
\* own hostName, recordType, destination and priority.
C7_UpdateCarriesMatchedID ==
    fn = "getRecordsToSet" =>
        \A i \in UpdateIdx :
            \E k \in 1..Len(out) :
                out[k] = [desired[i] EXCEPT !.ID = findRecord(desired[i], existing).ID]

C7_Witness ==
    /\ fn = "getRecordsToSet"
    /\ \E i \in UpdateIdx : desired[i].ID = "" /\ out[Rank(UpdateIdx, i)].ID # ""

\* the desired records that resolve to an existing record
ResolvedIdx == {i \in 1..Len(desired) : findRecord(desired[i], existing) # Nil}

\* C8: getRecordsToDelete returns, in input order, one entry per desired
\* record that resolves, with the id and destination of the match and the
\* deletion flag set, and nothing for a desired record that does not resolve.
C8_DeleteEntriesFromMatch ==
    fn = "getRecordsToDelete" =>
        /\ Len(out) = Cardinality(ResolvedIdx)
        /\ \A i \in ResolvedIdx :
              LET entry == out[Rank(ResolvedIdx, i)]
                  match == findRecord(desired[i], existing)
              IN  /\ entry.ID = match.ID
                  /\ entry.Destination = match.Destination
                  /\ entry.DeleteRecord = TRUE
                  /\ entry.HostName = desired[i].HostName
                  /\ entry.RecType = desired[i].RecType
                  /\ entry.Priority = desired[i].Priority

C8_Witness ==
    /\ fn = "getRecordsToDelete"
    /\ \E i \in ResolvedIdx :
          /\ desired[i].Destination # findRecord(desired[i], existing).Destination
          /\ desired[i].ID = ""
    /\ \E i \in 1..Len(desired) : i \notin ResolvedIdx
    /\ out # <<>>

\* whether existing[j] is the candidate by the one strategy its id and type
\* select
Identifies(j) ==
    IF desired.ID # "" THEN existing[j].ID = desired.ID
    ELSE IF desired.RecType # "MX"
        THEN existing[j].HostName = desired.HostName
             /\ existing[j].RecType = desired.RecType
    ELSE /\ existing[j].HostName = desired.HostName
         /\ existing[j].RecType = desired.RecType
         /\ existing[j].Priority = desired.Priority

\* C9: findRecord matches by id alone when the candidate has one (absent if
\* no existing record has it), else by the first existing record of equal
\* hostName and recordType, and for MX of equal priority too.
C9_FindRecordStrictPriority ==
    fn = "findRecord" =>
        IF \E j \in 1..Len(existing) : Identifies(j)
            THEN \E j \in 1..Len(existing) :
                    /\ Identifies(j)
                    /\ \A k \in 1..(j - 1) : ~Identifies(k)
                    /\ out = existing[j]
            ELSE out = Nil

C9_Witness ==
    /\ fn = "findRecord"
    /\ desired.ID # ""
    /\ desired.ID \notin IDsOf(existing)
    /\ \E j \in 1..Len(existing) :
          existing[j].HostName = desired.HostName /\ existing[j].RecType = desired.RecType
    /\ out = Nil

----------------------------------------------------------------------------
(* Properties of the Provider's top-level calls.                           *)

\* the actions a call has sent so far
ActionsSent(c) == [k \in 1..Len(local[c].sent) |-> local[c].sent[k].action]

\* the call of c has read the zone's record set
HasReadRecords(c) ==
    /\ \E k \in 1..Len(local[c].sent) : local[c].sent[k].action = "infoDnsRecords"
    /\ local[c].ret.err # "infoDnsRecords"

\* no record the caller passed resolves to a record the call read
NoneResolves(c) ==
    \A i \in 1..Len(local[c].records) :
        findRecord(toNetcupRecords(local[c].records)[i], local[c].existingRecordSet) = Nil

\* C4: when no desired record resolves to an existing record the batch of
\* getRecordsToDelete is empty, and DeleteRecords sends no update, returns
\* an empty list and no error, and leaves the zone's record set as it was.
C4_DeleteOfAbsentIsNoOp ==
    \A c \in Callers :
        (/\ local[c].op = "DeleteRecords"
         /\ HasReadRecords(c)
         /\ NoneResolves(c))
            => /\ local[c].batch = <<>>
               /\ pc[c] \in {"logout", "unlock"}
               /\ local[c].ret = Return(<<>>, FALSE, "")
               /\ \A k \in 1..Len(local[c].sent) :
                      local[c].sent[k].action # "updateDnsRecords"
               /\ zone = local[c].zone0

C4_Witness ==
    \E c \in Callers :
        /\ pc[c] = "unlock"
        /\ local[c].op = "DeleteRecords"
        /\ HasReadRecords(c)
        /\ local[c].records # <<>>
        /\ local[c].existingRecordSet # <<>>
        /\ NoneResolves(c)

\* C10: a call whose login fails returns the login error and no records,
\* has sent the login and nothing else (no zone read, no update, no logout),
\* leaves the zone as it was, and does not keep the mutex once it returned.
C10_LoginFailureSendsNothingElse ==
    \A c \in Callers :
        /\ local[c].ret.err = "login" =>
              /\ pc[c] = "unlock"
              /\ ActionsSent(c) = <<"login">>
              /\ local[c].ret.records = <<>>
              /\ local[c].ret.nil
              /\ zone = local[c].zone0
        /\ pc[c] \in {"idle", "lock"} => mutex # c

C10_Witness ==
    \E c \in Callers :
        /\ pc[c] = "unlock"
        /\ local[c].ret.err = "login"
        /\ local[c].op = "DeleteRecords"
        /\ local[c].records # <<>>
        /\ zone # <<>>

\* the places in the requests of call c that carry the given action
Places(c, action) == {k \in 1..Len(local[c].sent) : local[c].sent[k].action = action}

\* the login of call c has succeeded
LoggedIn(c) == \E k \in Places(c, "login") : local[c].recv[k] = "success"

\* C11: a call whose login succeeded has attempted, when it returns, exactly
\* one logout, for the session id its login obtained, as its last action,
\* whatever its exit path; before that point it has attempted no logout.
C11_LogoutOnEveryExit ==
    \A c \in Callers :
        LET l == local[c]
        IN  /\ (pc[c] = "unlock" /\ LoggedIn(c)) =>
                  /\ Cardinality(Places(c, "logout")) = 1
                  /\ l.apiSessionID \in {SessionID(n) : n \in 1..calls}
                  /\ l.sent[Len(l.sent)] = Request("logout", l.apiSessionID, <<>>)
            /\ pc[c] # "unlock" =>
                  \A k \in 1..Len(l.sent) : l.sent[k].action # "logout"
            /\ LoggedIn(c) <=> l.apiSessionID # ""

C11_Witness ==
    \E c \in Callers :
        /\ pc[c] = "unlock"
        /\ LoggedIn(c)
        /\ local[c].ret.err = "updateDnsRecords"
        /\ Places(c, "logout") # {}

\* C12: the logout of a call changes neither the records nor the error the
\* call returns, nor the zone, whether the logout succeeds or fails.
C12_LogoutKeepsOutcome ==
    [][\A c \in Callers :
          (pc[c] = "logout" /\ pc'[c] = "unlock") =>
              /\ local'[c].ret = local[c].ret
              /\ zone' = zone
              /\ Len(local'[c].recv) = Len(local[c].recv) + 1]_vars

\* a call that returns records and no error after its logout was answered
\* with status "error"
C12_Witness ==
    \E c \in Callers :
        /\ pc[c] = "unlock"
        /\ Places(c, "logout") # {}
        /\ \A k \in Places(c, "logout") : local[c].recv[k] = "error"
        /\ local[c].ret.err = ""
        /\ local[c].ret.records # <<>>

\* the callers whose call holds the mutex: between Lock and Unlock
Running == {c \in Callers : pc[c] \in InCall \cup {"unlock"}}

\* C13: at most one call is between its Lock and its return, it is the
\* holder of the mutex, no other call has sent a request of its own, and
\* the record set a call read is the zone's until its batch is submitted.
C13_MutualExclusion ==
    /\ Cardinality(Running) <= 1
    /\ \A c \in Callers :
        /\ c \in Running <=> mutex = c
        /\ c \notin Running => local[c].sent = <<>>
        /\ (HasReadRecords(c) /\ Places(c, "updateDnsRecords") = {}) =>
               /\ local[c].existingRecordSet = zone
               /\ zone = local[c].zone0

\* a caller blocked in Lock while the other call is about to submit a batch
C13_Witness ==
    \E c, d \in Callers :
        /\ pc[c] = "updateDnsRecords"
        /\ pc[d] = "lock"
        /\ local[c].batch # <<>>

\* the batch the reconciler gives call c for the record set it read
Reconciled(c) ==
    recordsToSubmit(local[c].op, toNetcupRecords(local[c].records),
                    local[c].existingRecordSet)

\* C14: no updateDnsRecords request carries an empty record set; a call of
\* AppendRecords, SetRecords or DeleteRecords whose reconciler gives an empty
\* batch sends no update, returns an empty list and no error, and leaves the
\* zone as it was.
C14_EmptyBatchNotSubmitted ==
    \A c \in Callers :
        /\ \A k \in Places(c, "updateDnsRecords") : local[c].sent[k].dnsrecordset # <<>>
        /\ (/\ local[c].op \in Ops \ {"GetRecords"}
            /\ HasReadRecords(c)
            /\ local[c].batch = <<>>)
               => /\ Reconciled(c) = <<>>
                  /\ Places(c, "updateDnsRecords") = {}
                  /\ pc[c] \in {"logout", "unlock"}
                  /\ local[c].ret = Return(<<>>, FALSE, "")
                  /\ zone = local[c].zone0

\* AppendRecords returned with an empty batch for records it was passed
C14_Witness ==
    \E c \in Callers :
        /\ pc[c] = "unlock"
        /\ local[c].op = "AppendRecords"
        /\ HasReadRecords(c)
        /\ local[c].records # <<>>
        /\ Reconciled(c) = <<>>

\* C15: a call sends no action twice; an action other than logout that
\* fails makes the call return that action's error with a nil record list,
\* and is followed by no action but the logout.
C15_NoRetries ==
    \A c \in Callers :
        LET l == local[c]
        IN  /\ \A j, k \in 1..Len(l.sent) :
                    l.sent[j].action = l.sent[k].action => j = k
            /\ \A k \in 1..Len(l.sent) :
                (l.recv[k] # "success" /\ l.sent[k].action # "logout") =>
                    /\ l.ret = Return(<<>>, TRUE, l.sent[k].action)
                    /\ \A j \in (k + 1)..Len(l.sent) : l.sent[j].action = "logout"
            /\ l.ret.err # "" =>
                \E k \in 1..Len(l.sent) :
                    l.sent[k].action = l.ret.err /\ l.recv[k] # "success"

\* a call that returned after its infoDnsZone failed
C15_Witness ==
    \E c \in Callers :
        /\ pc[c] = "unlock"
        /\ local[c].op = "SetRecords"
        /\ local[c].records # <<>>
        /\ local[c].ret.err = "infoDnsZone"
        /\ ActionsSent(c) = <<"login", "infoDnsZone", "logout">>

\* C16: a response whose status is not "success" ("error" or any other
\* value) fails the action: the call returns that action's error, built from
\* the short and the long message, and nil records, uses nothing of the
\* response data, changes nothing in the zone and sends only the logout
\* afterwards.
C16_NonSuccessIsFailure ==
    \A c \in Callers :
        LET l == local[c]
        IN  \A k \in 1..Len(l.sent) :
                (l.recv[k] \in Statuses \ {"success"} /\ l.sent[k].action # "logout") =>
                    /\ l.ret = Return(<<>>, TRUE, l.sent[k].action)
                    /\ l.errmsg = "[netcup] short: long"
                    /\ pc[c] \in {"logout", "unlock"}
                    /\ \A j \in (k + 1)..Len(l.sent) : l.sent[j].action = "logout"
                    /\ zone = l.zone0
                    /\ l.sent[k].action = "login" => l.apiSessionID = "" /\ pc[c] = "unlock"
                    /\ l.sent[k].action = "infoDnsZone" => l.ttl = 0
                    /\ l.sent[k].action = "infoDnsRecords" =>
                           l.existingRecordSet = <<>> /\ l.batch = <<>>

\* a call whose update was answered with a status that is neither "success"
\* nor "error"
C16_Witness ==
    \E c \in Callers :
        /\ pc[c] = "unlock"
        /\ \E k \in Places(c, "updateDnsRecords") : local[c].recv[k] = "pending"
        /\ \E k \in Places(c, "logout") : local[c].recv[k] = "success"

\* C17: a call sends at most one updateDnsRecords, whose record set is the
\* whole batch of the reconciler in its order; GetRecords sends none, and a
\* call that returns the error of login, infoDnsZone or infoDnsRecords has
\* sent none and left the zone as it was.
C17_WholeBatchOnce ==
    \A c \in Callers :
        /\ Cardinality(Places(c, "updateDnsRecords")) <= 1
        /\ \A k \in Places(c, "updateDnsRecords") :
            /\ local[c].op \in Ops \ {"GetRecords"}
            /\ local[c].sent[k].dnsrecordset = Reconciled(c)
            /\ local[c].sent[k].dnsrecordset = local[c].batch
        /\ local[c].ret.err \in {"login", "infoDnsZone", "infoDnsRecords"} =>
            /\ Places(c, "updateDnsRecords") = {}
            /\ zone = local[c].zone0

\* a call that submitted a batch of several records in one update
C17_Witness ==
    \E c \in Callers :
        /\ pc[c] = "unlock"
        /\ local[c].ret.err = ""
        /\ \E k \in Places(c, "updateDnsRecords") :
            /\ Len(local[c].sent[k].dnsrecordset) >= 2
            /\ local[c].recv[k] = "success"

\* C18: a call whose ctx is cancelled after its login succeeded has, when it
\* returns, sent a logout request for its session that reached the provider.
C18_CancelledCallLogsOut ==
    \A c \in Callers :
        (pc[c] = "unlock" /\ LoggedIn(c) /\ local[c].cancelled) =>
            \E k \in Places(c, "logout") :
                /\ local[c].sent[k].apisessionid = local[c].apiSessionID
                /\ local[c].recv[k] # Canceled

\* the records with their TTL replaced
WithTTL(records, ttl) == [i \in 1..Len(records) |-> [records[i] EXCEPT !.TTL = ttl]]

\* C19: the records a call returns carry the TTL its infoDnsZone read, in
\* nanoseconds; the batch a call has computed has no TTL and is the batch of
\* the same records with any other TTL, and so is the record set it submits.
C19_TTLIsTheZones ==
    \A c \in Callers :
        LET l == local[c]
        IN  /\ (pc[c] \in {"logout", "unlock"} /\ l.ret.err = "") =>
                /\ l.ttl = ZoneTTL
                /\ \A i \in 1..Len(l.ret.records) : l.ret.records[i].TTL = ZoneTTL * Second
            /\ (l.op \in Ops \ {"GetRecords"} /\ pc[c] \in {"updateDnsRecords", "logout"}
                    /\ HasReadRecords(c)) =>
                /\ \A i \in 1..Len(l.batch) : "TTL" \notin DOMAIN l.batch[i]
                /\ \A ttl \in {0, ZoneTTL * Second} :
                    l.batch = recordsToSubmit(l.op, toNetcupRecords(WithTTL(l.records, ttl)),
                                              l.existingRecordSet)
            /\ \A k \in Places(c, "updateDnsRecords") :
                \A i \in 1..Len(l.sent[k].dnsrecordset) :
                    "TTL" \notin DOMAIN l.sent[k].dnsrecordset[i]

\* a call that was passed a record with a TTL of its own and returns it with
\* the zone's
C19_Witness ==
    \E c \in Callers :
        /\ pc[c] = "unlock"
        /\ local[c].op = "SetRecords"
        /\ \E i \in 1..Len(local[c].records) :
            /\ local[c].records[i].TTL = Second \div 2
            /\ \E j \in 1..Len(local[c].ret.records) :
                /\ local[c].ret.records[j].Value = local[c].records[i].Value
                /\ local[c].ret.records[j].Type = local[c].records[i].Type
                /\ local[c].ret.records[j].TTL = ZoneTTL * Second

\* the update of call c was answered with status "success"
Updated(c) == \E k \in Places(c, "updateDnsRecords") : local[c].recv[k] = "success"

\* C20: an AppendRecords call whose update succeeded returns exactly the
\* records of the zone after the update that the record set read before it
\* did not hold, in the zone's order and with the provider's ids; it returns
\* no record that the zone held unchanged, and every record it created.
C20_AppendReturnsAdded ==
    \A c \in Callers :
        LET l == local[c]
            before == {l.existingRecordSet[j] : j \in 1..Len(l.existingRecordSet)}
        IN  (l.op = "AppendRecords" /\ Updated(c)) =>
                /\ l.ret =
                       Returned(toLibdnsRecords(SelectSeq(zone, LAMBDA r : r \notin before),
                                                l.ttl))
                /\ \A i \in 1..Len(l.ret.records) :
                    /\ l.ret.records[i].ID # ""
                    /\ \E j \in 1..Len(zone) :
                        toLibdnsRecords(<<zone[j]>>, l.ttl)[1] = l.ret.records[i]
                    /\ \A j \in 1..Len(l.existingRecordSet) :
                        toLibdnsRecords(<<l.existingRecordSet[j]>>, l.ttl)[1]
                            # l.ret.records[i]
                /\ \A j \in 1..Len(zone) :
                    zone[j].ID \notin IDsOf(l.existingRecordSet) =>
                        \E i \in 1..Len(l.ret.records) : l.ret.records[i].ID = zone[j].ID

\* an AppendRecords call that added a record to a zone that held another
C20_Witness ==
    \E c \in Callers :
        /\ pc[c] = "unlock"
        /\ local[c].op = "AppendRecords"
        /\ Updated(c)
        /\ local[c].existingRecordSet # <<>>
        /\ local[c].ret.records # <<>>
        /\ Len(local[c].ret.records) < Len(zone)
        /\ \E i \in 1..Len(local[c].ret.records) :
            local[c].ret.records[i].ID \notin IDsOf(local[c].existingRecordSet)

\* the record the caller gets for a record of the zone
Reported(c, r) == toLibdnsRecords(<<r>>, local[c].ttl)[1]

\* the records call c returned, as a set
ReturnedBy(c) == {local[c].ret.records[j] : j \in 1..Len(local[c].ret.records)}

\* the records of the zone that the record set call c read did not hold:
\* the records the call created or changed
Touched(c) ==
    {zone[j] : j \in {k \in 1..Len(zone) :
                        \A i \in 1..Len(local[c].existingRecordSet) :
                            local[c].existingRecordSet[i] # zone[k]}}

\* C21: a SetRecords call whose update succeeded returns exactly the records
\* it created or changed in the zone, those changed in place with the id
\* they had, and so one for every desired record that the zone holds since
\* the call, and none that the zone held unchanged before the call.
C21_SetReturnsUpdated ==
    \A c \in Callers :
        LET l == local[c]
        IN  (l.op = "SetRecords" /\ Updated(c)) =>
                /\ ReturnedBy(c) = {Reported(c, z) : z \in Touched(c)}
                /\ Len(l.ret.records) = Cardinality(Touched(c))
                /\ \A z \in Touched(c) :
                    z.ID \in IDsOf(l.existingRecordSet) =>
                        \E r \in ReturnedBy(c) : r.ID = z.ID /\ r.Value = z.Destination
                /\ \A j \in 1..Len(l.existingRecordSet) :
                    (\E k \in 1..Len(zone) : zone[k] = l.existingRecordSet[j]) =>
                        \A r \in ReturnedBy(c) : r.ID # l.existingRecordSet[j].ID

\* a SetRecords call that changed a record in place, created another and
\* returned both
C21_Witness ==
    \E c \in Callers :
        /\ pc[c] = "unlock"
        /\ local[c].op = "SetRecords"
        /\ Updated(c)
        /\ \E r \in ReturnedBy(c) : r.ID \in IDsOf(local[c].existingRecordSet)
        /\ \E r \in ReturnedBy(c) : r.ID \notin IDsOf(local[c].existingRecordSet)

\* C22: a DeleteRecords call whose update succeeded returns exactly the
\* records of the record set it read that the zone no longer holds, in the
\* order it read them, and no record that is still in the zone.
C22_DeleteReturnsDeleted ==
    \A c \in Callers :
        LET l == local[c]
            after == {zone[k] : k \in 1..Len(zone)}
        IN  (l.op = "DeleteRecords" /\ Updated(c)) =>
                /\ l.ret = Returned(toLibdnsRecords(
                               SelectSeq(l.existingRecordSet, LAMBDA r : r \notin after),
                               l.ttl))
                /\ \A r \in ReturnedBy(c) : r.ID \notin IDsOf(zone)
                /\ \A j \in 1..Len(l.existingRecordSet) :
                    l.existingRecordSet[j].ID \notin IDsOf(zone) =>
                        Reported(c, l.existingRecordSet[j]) \in ReturnedBy(c)

\* a DeleteRecords call that deleted one record of two and returned it
C22_Witness ==
    \E c \in Callers :
        /\ pc[c] = "unlock"
        /\ local[c].op = "DeleteRecords"
        /\ Updated(c)
        /\ Len(local[c].ret.records) = 1
        /\ Len(local[c].existingRecordSet) = 2
        /\ Len(zone) = 1

\* C23: the mutex is given up only by the step that ends a call, after the
\* logout of a call that logged in has been sent and answered; every request
\* is sent by the holder of the mutex, who still holds it afterwards, while
\* no other call has sent a request of its own.
C23_LockSpansLogout ==
    [][\A c \in Callers :
          /\ (mutex = c /\ mutex' # c) =>
                /\ pc[c] = "unlock" /\ pc'[c] \in {"idle", "lock"}
                /\ LoggedIn(c) =>
                      /\ local[c].sent[Len(local[c].sent)].action = "logout"
                      /\ Len(local[c].recv) = Len(local[c].sent)
          /\ (local'[c].sent # local[c].sent /\ local'[c].sent # <<>>) =>
                /\ mutex = c /\ mutex' = c
                /\ \A d \in Callers \ {c} : local[d].sent = <<>>]_vars

\* a call that has logged out and still holds the mutex another caller
\* waits for
C23_Witness ==
    \E c, d \in Callers :
        /\ pc[c] = "unlock"
        /\ LoggedIn(c)
        /\ Places(c, "logout") # {}
        /\ mutex = c
        /\ pc[d] = "lock"

\* the actions of a call in the order of the method's statements
ActionOrder == <<"login", "infoDnsZone", "infoDnsRecords", "updateDnsRecords">>

\* C24: the actions of a call come in the order login, infoDnsZone,
\* infoDnsRecords, updateDnsRecords, with the logout last; an update is sent
\* only when the three actions before it succeeded, and carries the batch
\* computed from the record list the infoDnsRecords of the call returned.
C24_ActionOrder ==
    \A c \in Callers :
        LET l == local[c]
        IN  /\ \A k \in 1..Len(l.sent) :
                \/ k <= Len(ActionOrder) /\ l.sent[k].action = ActionOrder[k]
                \/ /\ l.sent[k].action = "logout"
                   /\ k = Len(l.sent)
                   /\ k >= 2
                   /\ l.recv[1] = "success"
            /\ \A k \in 1..Len(l.sent) :
                l.sent[k].action = "updateDnsRecords" =>
                    /\ \A j \in 1..(k - 1) : l.recv[j] = "success"
                    /\ l.existingRecordSet = l.zone0
                    /\ l.sent[k].dnsrecordset =
                           recordsToSubmit(l.op, toNetcupRecords(l.records), l.zone0)

\* a call that sent all five actions
C24_Witness ==
    \E c \in Callers :
        /\ pc[c] = "unlock"
        /\ local[c].op = "DeleteRecords"
        /\ ActionsSent(c) =
               <<"login", "infoDnsZone", "infoDnsRecords", "updateDnsRecords", "logout">>

\* the elements of a list at the given places, in the list's order
Pick(list, places) ==
    [k \in 1..Cardinality(places) |-> list[CHOOSE i \in places : Rank(places, i) = k]]

\* a list of records with the ids taken out
WithoutIDs(records) == [i \in 1..Len(records) |-> [records[i] EXCEPT !.ID = ""]]

\* the existing records with the hostName and recordType of a desired
\* record, and with its priority when it is an MX record
SameNameAndType(d) ==
    {j \in 1..Len(existing) :
        /\ existing[j].HostName = d.HostName
        /\ existing[j].RecType = d.RecType
        /\ d.RecType = "MX" => existing[j].Priority = d.Priority}

C26_AppendBatchIsSubSequence ==
    fn = "getRecordsToAppend" =>
        /\ out = Pick(desired,
                      {i \in 1..Len(desired) :
                          \/ findRecord(desired[i], existing) = Nil
                          \/ ~equals(findRecord(desired[i], existing), desired[i])})
        /\ existing = <<>> => out = desired

\* a batch that drops the first of two desired records and keeps the second
C26_Witness ==
    /\ fn = "getRecordsToAppend"
    /\ Len(desired) = 2
    /\ existing # <<>>
    /\ out = <<desired[2]>>
    /\ desired[1] # desired[2]
    /\ findRecord(desired[2], existing) # Nil

\* call c repeats the call before it on the zone as that call left it
Repeats(c, op) ==
    /\ local[c].repeat
    /\ local[c].op = op
    /\ local[c].zone0 = local[c].last
    /\ HasReadRecords(c)

\* C27: an AppendRecords call that repeats a successful AppendRecords call
\* with the same records, the zone being as that call left it, computes an
\* empty batch, sends no update, returns an empty list and no error and
\* leaves the zone as it was.
C27_RepeatedAppendIsNoOp ==
    \A c \in Callers :
        Repeats(c, "AppendRecords") =>
            /\ local[c].batch = <<>>
            /\ Places(c, "updateDnsRecords") = {}
            /\ pc[c] = "unlock" => local[c].ret = Return(<<>>, FALSE, "")
            /\ zone = local[c].last

\* C28: a SetRecords call that repeats a successful SetRecords call with the
\* same records, the zone being as that call left it, computes an empty
\* batch, sends no update and leaves the zone as it was.
C28_RepeatedSetIsNoOp ==
    \A c \in Callers :
        Repeats(c, "SetRecords") =>
            /\ local[c].batch = <<>>
            /\ Places(c, "updateDnsRecords") = {}
            /\ zone = local[c].last

\* C29: no batch computed by getRecordsToSet or getRecordsToDelete holds two
\* entries with the same non-empty id: every existing record is targeted at
\* most once.
C29_TargetedAtMostOnce ==
    fn \in {"getRecordsToSet", "getRecordsToDelete"} =>
        \A i, j \in 1..Len(out) :
            (i # j /\ out[i].ID # "") => out[i].ID # out[j].ID

\* C30: a successful AppendRecords call only adds: its batch holds no entry
\* carrying the id of an existing record, and every record the zone had
\* before the call is still in the zone, id and fields unchanged.
C30_AppendOnlyAdds ==
    \A c \in Callers :
        (local[c].op = "AppendRecords" /\ HasReadRecords(c)) =>
            /\ \A i \in 1..Len(local[c].batch) :
                   local[c].batch[i].ID \notin IDsOf(local[c].existingRecordSet)
            /\ Updated(c) =>
                   \A i \in 1..Len(local[c].zone0) :
                       \E k \in 1..Len(zone) : zone[k] = local[c].zone0[i]

\* C31: every entry with a non-empty id in a batch that AppendRecords,
\* SetRecords or DeleteRecords hands to updateDnsRecords carries the id of a
\* record in the list the infoDnsRecords of the same call returned: no id
\* the zone does not know is submitted.
C31_NoStaleID ==
    \A c \in Callers :
        \A k \in Places(c, "updateDnsRecords") :
            \A i \in 1..Len(local[c].sent[k].dnsrecordset) :
                LET id == local[c].sent[k].dnsrecordset[i].ID
                IN  id = "" \/ id \in IDsOf(local[c].existingRecordSet)

\* C32: when every request returns and the mutex is handed out fairly, a
\* caller waiting for the mutex eventually gets it, and a call that holds
\* the mutex eventually returns and releases it, whichever way it ends.
C32_EveryCallReturns ==
    \A c \in Callers :
        /\ (pc[c] = "lock") ~> (mutex = c)
        /\ (mutex = c) ~> (mutex = NoCaller)

\* a call whose login failed is about to return while another caller waits
\* for the mutex
C32_Witness ==
    \E c, d \in Callers :
        /\ mutex = c
        /\ pc[c] = "unlock"
        /\ local[c].ret.err = "login"
        /\ pc[d] = "lock"

====
